---------------------------- MODULE Spec2Model ----------------------------
(***************************************************************************)
(* Model of streamlit_app.py: one Streamlit script that is re-run from the *)
(* top on every user interaction.  A run reads the API key, the widgets,   *)
(* and - when a file is uploaded and the button was pressed - transcribes  *)
(* the file and, unless "transcribe only" is ticked, assembles a prompt    *)
(* and sends it to the chat model.                                         *)
(*                                                                         *)
(* Text is a sequence of tokens.  A token is either a run of whitespace    *)
(* (" ", "\n", the indentation runs of the prompt layout), a tag such as   *)
(* "<input>", or a piece of plain text.  Python's None is the empty tuple  *)
(* and a value v that may be None is <<v>>.                                *)
(***************************************************************************)
EXTENDS Integers, Sequences, FiniteSets, TLC

VARIABLES
    pc,                            \* position of the current script run
    out,                           \* elements the run has put on the page
    openai_api_key,                \* line 57/59/72
    uploaded_file,                 \* line 89
    user_additional_instructions,  \* line 96
    transcribe_only,               \* line 103
    transcript_response_text,      \* line 163
    trascrizione_raw,              \* line 157/169
    main_prompt_instruction,       \* line 206
    esempi_texts,                  \* line 207
    full_prompt_for_gpt,           \* line 229
    gpt_response_obj,              \* line 240
    risultato_gpt,                 \* line 243
    prompt_cache,                  \* st.cache_data of load_main_prompt
    esempi_cache,                  \* st.cache_data of load_esempi
    transcribeCalls,               \* calls of client.audio.transcriptions.create in this run
    gptCalls                       \* calls of client.chat.completions.create in this run

vars == <<pc, out, openai_api_key, uploaded_file, user_additional_instructions,
          transcribe_only, transcript_response_text, trascrizione_raw,
          main_prompt_instruction, esempi_texts, full_prompt_for_gpt,
          gpt_response_obj, risultato_gpt, prompt_cache, esempi_cache,
          transcribeCalls, gptCalls>>

-----------------------------------------------------------------------------
(* Python values *)

None == <<>>

Some(v) == <<v>>

\* The value the f-string of line 229 formats: str(None) is "None".
Text(m) == IF m = None THEN <<"None">> ELSE m[1]

\* Truth value of an optional string: None and "" are falsy.
Truthy(m) == m # None /\ m[1] # <<>>

-----------------------------------------------------------------------------
(* Configuration *)

NUM_ESEMPI == 6

MAX_BYTES == 25 * 1024 * 1024

-----------------------------------------------------------------------------
(* Strings *)

WhitespaceTokens == {" ", "\n", "    ", "        ", "            "}

IsSpace(t) == t \in WhitespaceTokens

RECURSIVE LStrip(_)
LStrip(s) == IF s # <<>> /\ IsSpace(Head(s)) THEN LStrip(Tail(s)) ELSE s

RECURSIVE RStrip(_)
RStrip(s) ==
    IF s # <<>> /\ IsSpace(s[Len(s)]) THEN RStrip(SubSeq(s, 1, Len(s) - 1)) ELSE s

\* str.strip()
Strip(s) == RStrip(LStrip(s))

\* str.replace("\n", " ")
ReplaceNewlines(s) == [i \in 1..Len(s) |-> IF s[i] = "\n" THEN " " ELSE s[i]]


-----------------------------------------------------------------------------
(* What the environment can hand to a run *)

\* st.secrets.get("OPENAI_API_KEY"): a key, an empty value, no such key, an
\* exception the except clause of line 58 names, any other exception.
SecretsOutcomes == {"key", "empty", "absent", "raises_caught", "raises_other"}

\* The password field of line 65: left empty, or filled in.
KeyInputs == {<<>>, <<"sk-user">>}

\* uploaded_file.size
FileSizes == {1, MAX_BYTES, MAX_BYTES + 1}

\* The text area of line 96.
InstructionTexts ==
    { <<>>,
      <<" ", "\n">>,
      <<" ", "tono", " ", "formale", "\n">>,
      <<"vedi", "<input>", "x", "</input>">> }

\* A read of a text file: the file is missing, unreadable, or has a content.
Missing == [kind |-> "missing", content |-> <<>>]

Unreadable == [kind |-> "unreadable", content |-> <<>>]

Content(c) == [kind |-> "content", content |-> c]

PromptFileReads == {Missing, Unreadable, Content(<<"Sei", " ", "un", " ", "giornalista", "\n">>)}

\* The contents zanzara<i>.txt can have.
EsempioContents(i) ==
    CASE i = 1 -> {<<"uno">>}
      [] i = 2 -> {<<" ", "due", "\n", "righe", "\n">>}
      [] i = 3 -> {<<"tre">>}
      [] i = 4 -> {<<>>}
      [] i = 5 -> {<<"cinque">>}
      [] OTHER -> {<<"sei">>, <<"sei", "</esempi>", "<esempio>">>}

EsempioFileReads(i) == {Missing, Unreadable} \cup {Content(c) : c \in EsempioContents(i)}

\* What client.audio.transcriptions.create can do: raise, or return a string,
\* or return an object with a .text attribute.
TranscriptionErrors == {"APIConnectionError", "RateLimitError", "APIStatusError", "Exception"}

TranscriptTexts ==
    { <<>>,
      <<" ", "\n">>,
      <<"ciao", "\n", "mondo", "\n">>,
      <<"ciao", "<input>", "fine", "</input>">> }

StrResponse(t) == [shape |-> "str", text |-> t]

ObjResponse(t) == [shape |-> "obj", text |-> t]

TranscriptionResponses ==
    {StrResponse(t) : t \in TranscriptTexts} \cup {ObjResponse(<<"ciao">>)}

\* What client.chat.completions.create can do: raise, or return a response
\* whose choices are None or a list of messages; a message content may be None.
ChatErrors == {"APIConnectionError", "RateLimitError", "APIStatusError", "Exception"}

ChatResponse(isNone, cs) == [choices_is_none |-> isNone, choices |-> cs]

\* The longest list of completions a response carries here.
MaxChoices == 2

\* message.content of one completion: None, or a text.
MessageContents == {None, Some(<<" ", "articolo", "\n">>)}

RECURSIVE ChoiceLists(_)
ChoiceLists(n) ==
    IF n = 0 THEN {<<>>}
    ELSE ChoiceLists(n - 1)
         \cup {Append(cs, c) : cs \in {l \in ChoiceLists(n - 1) : Len(l) = n - 1},
                               c \in MessageContents}

ChatResponses ==
    {ChatResponse(TRUE, <<>>)} \cup {ChatResponse(FALSE, cs) : cs \in ChoiceLists(MaxChoices)}

-----------------------------------------------------------------------------
(* Prompt assembly, lines 210-236 *)

\* One <esempio> sub-block, line 215.
EsempioBlock(esempio_text) ==
    <<"        ", "<esempio>", "\n", "            ">> \o esempio_text
        \o <<"\n", "        ", "</esempio>", "\n">>

RECURSIVE EsempiBody(_)
EsempiBody(texts) ==
    IF texts = <<>> THEN <<>> ELSE EsempioBlock(Head(texts)) \o EsempiBody(Tail(texts))

\* esempi_block, lines 210-218.
EsempiBlockOf(texts) ==
    <<"<esempi>", "\n">>
        \o (IF texts # <<>> THEN EsempiBody(texts) ELSE <<"        ", "\n">>)
        \o <<"</esempi>">>

\* The block emitted for any non-empty text, blank or not.
AdditionalInstructionsBlockUntrimmed(instructions) ==
    IF instructions # <<>>
    THEN <<"\n", "<additional_instructions>", "\n">> \o Strip(instructions)
             \o <<"\n", "</additional_instructions>", "\n">>
    ELSE <<>>

\* additional_instructions_block, lines 220-224.
AdditionalInstructionsBlock(instructions) ==
    IF Strip(instructions) # <<>>
    THEN <<"\n", "<additional_instructions>", "\n">> \o Strip(instructions)
             \o <<"\n", "</additional_instructions>", "\n">>
    ELSE <<>>

\* trascrizione_for_gpt_input, line 227.
TrascrizioneForGptInput(raw) ==
    IF Truthy(raw) THEN Strip(ReplaceNewlines(raw[1])) ELSE <<>>

\* full_prompt_for_gpt, lines 229-236.
AssemblePrompt(template, texts, instructions, raw) ==
    Text(template) \o <<"\n", "\n">>
        \o EsempiBlockOf(texts) \o <<"\n">>
        \o AdditionalInstructionsBlock(instructions)
        \o <<"\n", "<input>", "\n", "    ">> \o TrascrizioneForGptInput(raw)
        \o <<"\n", "</input>", "\n">>

-----------------------------------------------------------------------------
(* Template Store, lines 16-53 *)

\* The return value of the body of load_main_prompt for a read that succeeds,
\* line 21.
MainPromptOf(read) == Strip(read.content)

RECURSIVE AllReads(_)
AllReads(n) ==
    IF n = 0 THEN {<<>>}
    ELSE {Append(p, r) : p \in AllReads(n - 1), r \in EsempioFileReads(n)}

\* One read of each of zanzara1.txt .. zanzara<NUM_ESEMPI>.txt, line 33.
EsempiDirReads == AllReads(NUM_ESEMPI)

\* esempi_content after the loop of lines 33-44: the stripped contents of the
\* files that could be read, in file order.
RECURSIVE EsempiContent(_)
EsempiContent(reads) ==
    IF reads = <<>> THEN <<>>
    ELSE IF Head(reads).kind = "content"
         THEN <<Strip(Head(reads).content)>> \o EsempiContent(Tail(reads))
         ELSE EsempiContent(Tail(reads))

\* The warnings and errors load_esempi shows, lines 40, 43, 47, 52.
EsempiMessages(reads) ==
    LET content == EsempiContent(reads) IN
        {"warning_esempio_not_found" : i \in {j \in 1..Len(reads) : reads[j].kind = "missing"}}
        \cup {"error_esempio_read" : i \in {j \in 1..Len(reads) : reads[j].kind = "unreadable"}}
        \cup (IF content = <<>> THEN {"warning_no_esempi"}
              ELSE IF Len(content) # NUM_ESEMPI THEN {"warning_esempi_partial"}
              ELSE {})

-----------------------------------------------------------------------------
(* The script *)

Terminal == {"stopped", "end", "crashed"}

Init ==
    /\ pc = "secrets"
    /\ out = {}
    /\ openai_api_key = None
    /\ uploaded_file = None
    /\ user_additional_instructions = <<>>
    /\ transcribe_only = FALSE
    /\ transcript_response_text = None
    /\ trascrizione_raw = None
    /\ main_prompt_instruction = None
    /\ esempi_texts = None
    /\ full_prompt_for_gpt = None
    /\ gpt_response_obj = None
    /\ risultato_gpt = None
    /\ prompt_cache = None
    /\ esempi_cache = None
    /\ transcribeCalls = 0
    /\ gptCalls = 0

\* Lines 56-62: the key of the secret store.  An exception other than
\* AttributeError and KeyError is not caught and ends the run.
ReadSecrets ==
    /\ pc = "secrets"
    /\ \E o \in SecretsOutcomes :
        /\ openai_api_key' = CASE o = "key" -> Some(<<"sk-secret">>)
                               [] o = "empty" -> Some(<<>>)
                               [] OTHER -> None
        /\ pc' = IF o = "raises_other" THEN "crashed" ELSE "key_check"
    /\ UNCHANGED <<out, uploaded_file, user_additional_instructions, transcribe_only,
                   transcript_response_text, trascrizione_raw, main_prompt_instruction,
                   esempi_texts, full_prompt_for_gpt, gpt_response_obj, risultato_gpt,
                   prompt_cache, esempi_cache, transcribeCalls, gptCalls>>

\* st.stop() of line 75 left out: the run goes on without a key.
GoOnWithoutKey == "client"

\* Where st.stop() of line 75 leaves the run.
AfterMissingKey == "stopped"

\* Lines 64-77: without a key from the secrets the password field decides;
\* an empty field stops the run.
KeyCheck ==
    /\ pc = "key_check"
    /\ IF ~Truthy(openai_api_key)
       THEN \E openai_api_key_input \in KeyInputs :
                IF openai_api_key_input # <<>>
                THEN /\ openai_api_key' = Some(openai_api_key_input)
                     /\ pc' = "client"
                     /\ out' = out
                ELSE /\ openai_api_key' = openai_api_key
                     /\ out' = out \cup {"warning_enter_api_key"}
                     /\ pc' = AfterMissingKey
       ELSE /\ openai_api_key' = openai_api_key
            /\ out' = out \cup {"success_api_key_from_secrets"}
            /\ pc' = "client"
    /\ UNCHANGED <<uploaded_file, user_additional_instructions, transcribe_only,
                   transcript_response_text, trascrizione_raw, main_prompt_instruction,
                   esempi_texts, full_prompt_for_gpt, gpt_response_obj, risultato_gpt,
                   prompt_cache, esempi_cache, transcribeCalls, gptCalls>>

\* Lines 80-84: the client is built, or the run stops with an error.
ClientInit ==
    /\ pc = "client"
    /\ \E ok \in BOOLEAN :
        IF ok THEN pc' = "widgets" /\ out' = out
        ELSE pc' = "stopped" /\ out' = out \cup {"error_client_init"}
    /\ UNCHANGED <<openai_api_key, uploaded_file, user_additional_instructions,
                   transcribe_only, transcript_response_text, trascrizione_raw,
                   main_prompt_instruction, esempi_texts, full_prompt_for_gpt,
                   gpt_response_obj, risultato_gpt, prompt_cache, esempi_cache,
                   transcribeCalls, gptCalls>>

\* Lines 87-108: the uploader, the instructions and the transcription-only box.
Widgets ==
    /\ pc = "widgets"
    /\ uploaded_file' \in {None} \cup {Some([size |-> n]) : n \in FileSizes}
    /\ user_additional_instructions' \in InstructionTexts
    /\ transcribe_only' \in BOOLEAN
    /\ pc' = "main"
    /\ UNCHANGED <<out, openai_api_key, transcript_response_text, trascrizione_raw,
                   main_prompt_instruction, esempi_texts, full_prompt_for_gpt,
                   gpt_response_obj, risultato_gpt, prompt_cache, esempi_cache,
                   transcribeCalls, gptCalls>>

\* Lines 130, 252-260: no file, only the hint and the footer.
NoFile ==
    /\ pc = "main"
    /\ uploaded_file = None
    /\ out' = out \cup {"info_upload_file"}
    /\ pc' = "end"
    /\ UNCHANGED <<openai_api_key, uploaded_file, user_additional_instructions,
                   transcribe_only, transcript_response_text, trascrizione_raw,
                   main_prompt_instruction, esempi_texts, full_prompt_for_gpt,
                   gpt_response_obj, risultato_gpt, prompt_cache, esempi_cache,
                   transcribeCalls, gptCalls>>

\* Lines 130-140: a file is there; st.button is True only in the run its click
\* started.
Button ==
    /\ pc = "main"
    /\ uploaded_file # None
    /\ \E pressed \in BOOLEAN : pc' = IF pressed THEN "size_check" ELSE "end"
    /\ out' = out \cup {"audio_player"}
    /\ UNCHANGED <<openai_api_key, uploaded_file, user_additional_instructions,
                   transcribe_only, transcript_response_text, trascrizione_raw,
                   main_prompt_instruction, esempi_texts, full_prompt_for_gpt,
                   gpt_response_obj, risultato_gpt, prompt_cache, esempi_cache,
                   transcribeCalls, gptCalls>>

\* The size compared in whole megabytes: 25 MB and a few bytes passes.
TooLargeInWholeMegabytes(size) == size \div (1024 * 1024) > 25

\* The test of line 143.
TooLarge(size) == size > MAX_BYTES

\* Lines 141-154: the size check before any call.
SizeCheck ==
    /\ pc = "size_check"
    /\ IF TooLarge(uploaded_file[1].size)
       THEN out' = out \cup {"error_file_too_large"} /\ pc' = "stopped"
       ELSE out' = out \cup {"file_details"} /\ pc' = "transcribe"
    /\ UNCHANGED <<openai_api_key, uploaded_file, user_additional_instructions,
                   transcribe_only, transcript_response_text, trascrizione_raw,
                   main_prompt_instruction, esempi_texts, full_prompt_for_gpt,
                   gpt_response_obj, risultato_gpt, prompt_cache, esempi_cache,
                   transcribeCalls, gptCalls>>

\* The transcript read from a .text attribute: a plain string has none.
StrippedTextAttribute(response) ==
    IF response.shape = "obj" THEN Some(Strip(response.text)) ELSE None

\* Line 169, transcript_response_text.strip(): the stripped text of a string;
\* an object has no strip method and the call raises (None here).
StrippedResponse(response) ==
    IF response.shape = "str" THEN Some(Strip(response.text)) ELSE None

\* A retry in place of st.stop(): the call is made again.
RetryTranscription == "transcribe"

\* Where st.stop() of lines 174 and 178 leaves the run.
AfterTranscriptionError == "stopped"

\* Lines 171-178: every subclass of openai.APIError takes the first handler,
\* anything else the second.
TranscriptionErrorMessage(e) ==
    IF e \in {"APIConnectionError", "RateLimitError", "APIStatusError"}
    THEN "error_transcription_api"
    ELSE "error_transcription_generic"

\* Lines 156-178: one call of the transcription service.
Transcribe ==
    /\ pc = "transcribe"
    /\ transcribeCalls' = transcribeCalls + 1
    /\ \/ \E e \in TranscriptionErrors :
            /\ out' = out \cup {TranscriptionErrorMessage(e), "exception_trace"}
            /\ pc' = AfterTranscriptionError
            /\ UNCHANGED <<transcript_response_text, trascrizione_raw>>
       \/ \E response \in TranscriptionResponses :
            /\ transcript_response_text' = Some(response)
            /\ IF StrippedResponse(response) # None
               THEN /\ trascrizione_raw' = StrippedResponse(response)
                    /\ out' = out
                    /\ pc' = "display"
               ELSE /\ trascrizione_raw' = trascrizione_raw
                    /\ out' = out \cup {TranscriptionErrorMessage("AttributeError"),
                                        "exception_trace"}
                    /\ pc' = AfterTranscriptionError
    /\ UNCHANGED <<openai_api_key, uploaded_file, user_additional_instructions,
                   transcribe_only, main_prompt_instruction, esempi_texts,
                   full_prompt_for_gpt, gpt_response_obj, risultato_gpt,
                   prompt_cache, esempi_cache, gptCalls>>

\* The transcript block left out: only the caption is shown.
TranscriptDisplayWithoutText(raw) ==
    IF Truthy(raw)
    THEN [shown |-> {"caption_transcript"}, next |-> "branch"]
    ELSE IF raw = None
         THEN [shown |-> {"warning_transcript_empty", "error_transcript_unavailable"},
               next |-> "stopped"]
         ELSE [shown |-> {"warning_transcript_empty"}, next |-> "branch"]

\* An empty transcript treated like a missing one: the run stops.
TranscriptDisplayStopOnEmpty(raw) ==
    IF Truthy(raw)
    THEN [shown |-> {"transcript", "caption_transcript"}, next |-> "branch"]
    ELSE [shown |-> {"warning_transcript_empty", "error_transcript_unavailable"},
          next |-> "stopped"]

\* Lines 181-190: what is shown for a transcript, and where the run goes on.
\* A transcript with content is shown; an empty one gives a warning and the
\* run goes on; None stops the run.
TranscriptDisplay(raw) ==
    IF Truthy(raw)
    THEN [shown |-> {"transcript", "caption_transcript"}, next |-> "branch"]
    ELSE IF raw = None
         THEN [shown |-> {"warning_transcript_empty", "error_transcript_unavailable"},
               next |-> "stopped"]
         ELSE [shown |-> {"warning_transcript_empty"}, next |-> "branch"]

\* Lines 180-190.
Display ==
    /\ pc = "display"
    /\ out' = out \cup {"subheader_transcript"} \cup TranscriptDisplay(trascrizione_raw).shown
    /\ pc' = TranscriptDisplay(trascrizione_raw).next
    /\ UNCHANGED <<openai_api_key, uploaded_file, user_additional_instructions,
                   transcribe_only, transcript_response_text, trascrizione_raw,
                   main_prompt_instruction, esempi_texts, full_prompt_for_gpt,
                   gpt_response_obj, risultato_gpt, prompt_cache, esempi_cache,
                   transcribeCalls, gptCalls>>

\* The analysis skipped only when the transcript has content.
SkipAnalysisIfContent == transcribe_only /\ Truthy(trascrizione_raw)

\* The test of line 194.
SkipAnalysis == transcribe_only

\* Lines 193-204: transcription only ends the run here; otherwise the analysis
\* starts, with a warning for an empty transcript.
Branch ==
    /\ pc = "branch"
    /\ IF SkipAnalysis
       THEN /\ out' = IF Truthy(trascrizione_raw)
                      THEN out \cup {"success_transcription_only"} ELSE out
            /\ pc' = "end"
       ELSE /\ out' = IF ~Truthy(trascrizione_raw)
                      THEN out \cup {"warning_analysis_on_empty_input"} ELSE out
            /\ pc' = "load_prompt"
    /\ UNCHANGED <<openai_api_key, uploaded_file, user_additional_instructions,
                   transcribe_only, transcript_response_text, trascrizione_raw,
                   main_prompt_instruction, esempi_texts, full_prompt_for_gpt,
                   gpt_response_obj, risultato_gpt, prompt_cache, esempi_cache,
                   transcribeCalls, gptCalls>>

\* st.stop() of lines 24 and 27 left out: load_main_prompt returns None.
GoOnWithoutPrompt == "load_esempi"

\* Where st.stop() of lines 24 and 27 leaves the run.
AfterPromptLoadError == "stopped"

\* Lines 206, 16-27: the template, from the cache or from prompt.txt.  A failed
\* read shows an error and stops the run; nothing is cached then.
LoadMainPrompt ==
    /\ pc = "load_prompt"
    /\ IF prompt_cache # None
       THEN /\ main_prompt_instruction' = prompt_cache
            /\ pc' = "load_esempi"
            /\ UNCHANGED <<out, prompt_cache>>
       ELSE \E read \in PromptFileReads :
                IF read.kind = "content"
                THEN /\ main_prompt_instruction' = Some(MainPromptOf(read))
                     /\ prompt_cache' = Some(MainPromptOf(read))
                     /\ pc' = "load_esempi"
                     /\ out' = out
                ELSE /\ out' = out \cup {IF read.kind = "missing"
                                         THEN "error_prompt_not_found"
                                         ELSE "error_prompt_read"}
                     /\ pc' = AfterPromptLoadError
                     /\ UNCHANGED <<main_prompt_instruction, prompt_cache>>
    /\ UNCHANGED <<openai_api_key, uploaded_file, user_additional_instructions,
                   transcribe_only, transcript_response_text, trascrizione_raw,
                   esempi_texts, full_prompt_for_gpt, gpt_response_obj, risultato_gpt,
                   esempi_cache, transcribeCalls, gptCalls>>

\* Lines 207, 29-53: the examples, from the cache (which replays the
\* warnings) or from the esempi directory.
LoadEsempi ==
    /\ pc = "load_esempi"
    /\ IF esempi_cache # None
       THEN /\ esempi_texts' = Some(esempi_cache[1].value)
            /\ out' = out \cup esempi_cache[1].messages
            /\ UNCHANGED esempi_cache
       ELSE \E reads \in EsempiDirReads :
                /\ esempi_texts' = Some(EsempiContent(reads))
                /\ out' = out \cup EsempiMessages(reads)
                /\ esempi_cache' = Some([value |-> EsempiContent(reads),
                                         messages |-> EsempiMessages(reads)])
    /\ pc' = "assemble"
    /\ UNCHANGED <<openai_api_key, uploaded_file, user_additional_instructions,
                   transcribe_only, transcript_response_text, trascrizione_raw,
                   main_prompt_instruction, full_prompt_for_gpt, gpt_response_obj,
                   risultato_gpt, prompt_cache, transcribeCalls, gptCalls>>

\* Lines 209-238: the prompt is put together.  The debug box of line 237 is
\* created in this run and has its default, False.
Assemble ==
    /\ pc = "assemble"
    /\ full_prompt_for_gpt' = Some(AssemblePrompt(main_prompt_instruction, esempi_texts[1],
                                                  user_additional_instructions,
                                                  trascrizione_raw))
    /\ out' = out \cup {"checkbox_show_prompt"}
    /\ pc' = "gpt_request"
    /\ UNCHANGED <<openai_api_key, uploaded_file, user_additional_instructions,
                   transcribe_only, transcript_response_text, trascrizione_raw,
                   main_prompt_instruction, esempi_texts, gpt_response_obj,
                   risultato_gpt, prompt_cache, esempi_cache, transcribeCalls, gptCalls>>

\* The st.error of each handler of gpt_request, lines 120-127.
ChatErrorMessage(e) ==
    CASE e = "APIConnectionError" -> "error_gpt_connection"
      [] e = "RateLimitError" -> "error_gpt_rate_limit"
      [] e = "APIStatusError" -> "error_gpt_status"
      [] OTHER -> "error_gpt_unexpected"

\* Lines 240, 110-128: one chat-completion call; gpt_request returns the
\* response, or None after showing the error of the exception.
GptRequest ==
    /\ pc = "gpt_request"
    /\ gptCalls' = gptCalls + 1
    /\ \/ \E e \in ChatErrors :
            /\ out' = out \cup {ChatErrorMessage(e)}
            /\ gpt_response_obj' = None
       \/ \E response \in ChatResponses :
            /\ gpt_response_obj' = Some(response)
            /\ out' = out
    /\ pc' = "handle_response"
    /\ UNCHANGED <<openai_api_key, uploaded_file, user_additional_instructions,
                   transcribe_only, transcript_response_text, trascrizione_raw,
                   main_prompt_instruction, esempi_texts, full_prompt_for_gpt,
                   risultato_gpt, prompt_cache, esempi_cache, transcribeCalls>>

\* Only the response object tested, not its choices.
AnyResponse(obj) == obj # None

\* The test of line 242: a response, and a non-empty list of choices.
ValidResponse(obj) ==
    /\ obj # None
    /\ ~obj[1].choices_is_none
    /\ obj[1].choices # <<>>

\* Line 243, choices[0].message.content.strip(): None when the expression
\* raises (choices is None or empty, or the content is None).
FirstCompletion(obj) ==
    IF obj[1].choices_is_none \/ obj[1].choices = <<>> THEN None
    ELSE IF obj[1].choices[1] = None THEN None
    ELSE Some(Strip(obj[1].choices[1][1]))

\* Lines 242-251: the first completion is shown, or the error of line 251.
\* An exception of line 243 is not caught and ends the run.
HandleResponse ==
    /\ pc = "handle_response"
    /\ IF ValidResponse(gpt_response_obj)
       THEN IF FirstCompletion(gpt_response_obj) = None
            THEN /\ out' = out \cup {"exception_uncaught"}
                 /\ pc' = "crashed"
                 /\ UNCHANGED risultato_gpt
            ELSE /\ risultato_gpt' = FirstCompletion(gpt_response_obj)
                 /\ out' = out \cup {"analysis_result", "analysis_result_raw"}
                 /\ pc' = "end"
       ELSE /\ out' = out \cup {"error_no_valid_gpt_response"}
            /\ pc' = "end"
            /\ UNCHANGED risultato_gpt
    /\ UNCHANGED <<openai_api_key, uploaded_file, user_additional_instructions,
                   transcribe_only, transcript_response_text, trascrizione_raw,
                   main_prompt_instruction, esempi_texts, full_prompt_for_gpt,
                   gpt_response_obj, prompt_cache, esempi_cache, transcribeCalls,
                   gptCalls>>

\* Any interaction after a run starts the script again from line 1; only the
\* st.cache_data caches outlive the run.
Rerun ==
    /\ pc \in Terminal
    /\ pc' = "secrets"
    /\ out' = {}
    /\ openai_api_key' = None
    /\ uploaded_file' = None
    /\ user_additional_instructions' = <<>>
    /\ transcribe_only' = FALSE
    /\ transcript_response_text' = None
    /\ trascrizione_raw' = None
    /\ main_prompt_instruction' = None
    /\ esempi_texts' = None
    /\ full_prompt_for_gpt' = None
    /\ gpt_response_obj' = None
    /\ risultato_gpt' = None
    /\ transcribeCalls' = 0
    /\ gptCalls' = 0
    /\ UNCHANGED <<prompt_cache, esempi_cache>>

Next ==
    \/ ReadSecrets
    \/ KeyCheck
    \/ ClientInit
    \/ Widgets
    \/ NoFile
    \/ Button
    \/ SizeCheck
    \/ Transcribe
    \/ Display
    \/ Branch
    \/ LoadMainPrompt
    \/ LoadEsempi
    \/ Assemble
    \/ GptRequest
    \/ HandleResponse
    \/ Rerun

Spec == Init /\ [][Next]_vars

-----------------------------------------------------------------------------
(* Vocabulary of the properties *)

\* The run is in, or has been through, the analysis branch of lines 199-251.
AnalysisPositions == {"load_prompt", "load_esempi", "assemble", "gpt_request",
                      "handle_response"}

TranscriptionErrorShown ==
    out \cap {"error_transcription_api", "error_transcription_generic"} # {}

PromptLoadFailed == out \cap {"error_prompt_not_found", "error_prompt_read"} # {}

ChatErrorsShown ==
    out \cap {"error_gpt_connection", "error_gpt_rate_limit", "error_gpt_status",
              "error_gpt_unexpected"}

\* A response came back and holds no completion.
NoCompletions(obj) == obj # None /\ (obj[1].choices_is_none \/ obj[1].choices = <<>>)

Occurrences(s, t) == Cardinality({i \in 1..Len(s) : s[i] = t})

\* The place of the one occurrence of t in s.
Place(s, t) == CHOOSE i \in 1..Len(s) : s[i] = t

BlockDelimiters == {"<esempi>", "</esempi>", "<additional_instructions>",
                    "</additional_instructions>", "<input>", "</input>"}

HasDelimiter(s) == \E i \in 1..Len(s) : s[i] \in BlockDelimiters

\* p is template, one esempi block, the instructions block iff the
\* instructions are not blank, one input block, in this order.
BlocksInOrder(p, template, instructions) ==
    LET withInstructions == Strip(instructions) # <<>>
        n == IF withInstructions THEN 1 ELSE 0
    IN  /\ Occurrences(p, "<esempi>") = 1
        /\ Occurrences(p, "</esempi>") = 1
        /\ Occurrences(p, "<input>") = 1
        /\ Occurrences(p, "</input>") = 1
        /\ Occurrences(p, "<additional_instructions>") = n
        /\ Occurrences(p, "</additional_instructions>") = n
        /\ SubSeq(p, 1, Len(template)) = template
        /\ Len(template) < Place(p, "<esempi>")
        /\ Place(p, "<esempi>") < Place(p, "</esempi>")
        /\ Place(p, "</esempi>") < Place(p, "<input>")
        /\ Place(p, "<input>") < Place(p, "</input>")
        /\ withInstructions =>
              /\ Place(p, "</esempi>") < Place(p, "<additional_instructions>")
              /\ Place(p, "<additional_instructions>") < Place(p, "</additional_instructions>")
              /\ Place(p, "</additional_instructions>") < Place(p, "<input>")

\* The <input> block of an empty transcript, with which the prompt ends.
EmptyInputBlock == <<"\n", "<input>", "\n", "    ", "\n", "</input>", "\n">>

EndsWith(s, t) == Len(t) <= Len(s) /\ SubSeq(s, Len(s) - Len(t) + 1, Len(s)) = t

-----------------------------------------------------------------------------
(* Properties *)

\* C1: in a run with the transcription-only box ticked the chat-completion
\* call is never made and the analysis branch is never entered, whatever the
\* transcript and whatever the transcription call did.
C1_TranscriptionOnlySkipsAnalysis ==
    transcribe_only =>
        /\ gptCalls = 0
        /\ pc \notin AnalysisPositions
        /\ full_prompt_for_gpt = None
        /\ gpt_response_obj = None

\* A transcription-only run that ended after an empty transcript.
C1_Witness ==
    /\ transcribe_only
    /\ pc = "end"
    /\ transcribeCalls = 1
    /\ trascrizione_raw = Some(<<>>)

\* C2: a file of more than 25 * 1024 * 1024 bytes is rejected with an error
\* and neither the transcription call nor the analysis call is made.
C2_OversizeRejectedBeforeAnyCall ==
    (uploaded_file # None /\ uploaded_file[1].size > 25 * 1024 * 1024) =>
        /\ transcribeCalls = 0
        /\ gptCalls = 0
        /\ pc \in {"main", "size_check", "stopped", "end"}
        /\ (pc = "stopped") <=> ("error_file_too_large" \in out)
        /\ "file_details" \notin out

\* A file of 26,214,401 bytes was rejected.
C2_Witness ==
    /\ uploaded_file # None
    /\ uploaded_file[1].size = 26214401
    /\ pc = "stopped"
    /\ "error_file_too_large" \in out

\* C3: when the transcription call raises, the run stops with an error shown,
\* the analysis is never started, and the call is made at most once per run.
C3_TranscriptionFailureIsFatal ==
    /\ transcribeCalls <= 1
    /\ (transcribeCalls >= 1 /\ transcript_response_text = None) =>
          /\ pc = "stopped"
          /\ TranscriptionErrorShown
          /\ trascrizione_raw = None
          /\ gptCalls = 0
          /\ full_prompt_for_gpt = None
          /\ main_prompt_instruction = None

\* An analysis-mode run stopped by a vendor error of the transcription.
C3_Witness ==
    /\ pc = "stopped"
    /\ ~transcribe_only
    /\ transcribeCalls = 1
    /\ transcript_response_text = None
    /\ "error_transcription_api" \in out

\* C4: the prompt is assembled and the analysis call made only with a loaded
\* template; a failed load stops the run before the examples are loaded, the
\* prompt assembled or the analysis called.
C4_NoAssemblyWithoutTemplate ==
    /\ (pc \in AnalysisPositions \ {"load_prompt"} \/ full_prompt_for_gpt # None \/ gptCalls > 0)
          => (main_prompt_instruction # None /\ main_prompt_instruction = prompt_cache)
    /\ PromptLoadFailed =>
          /\ pc = "stopped"
          /\ main_prompt_instruction = None
          /\ esempi_texts = None
          /\ full_prompt_for_gpt = None
          /\ gptCalls = 0

\* A run stopped because prompt.txt was not found.
C4_Witness ==
    /\ pc = "stopped"
    /\ "error_prompt_not_found" \in out
    /\ transcribeCalls = 1

\* C5 as stated: every assembled prompt is the template, one esempi block, the
\* instructions block iff the instructions are not blank, one input block, in
\* this order - whatever the examples, the instructions and the transcript.
C5_AnyTextGivesOneBlockEach ==
    full_prompt_for_gpt # None =>
        BlocksInOrder(full_prompt_for_gpt[1], main_prompt_instruction[1],
                      user_additional_instructions)

\* C5 amended: the same, for examples, instructions and a transcript that hold
\* none of the six block delimiters.
C5_DelimiterFreeTextGivesOneBlockEach ==
    ( /\ full_prompt_for_gpt # None
      /\ ~HasDelimiter(main_prompt_instruction[1])
      /\ \A i \in 1..Len(esempi_texts[1]) : ~HasDelimiter(esempi_texts[1][i])
      /\ ~HasDelimiter(user_additional_instructions)
      /\ ~HasDelimiter(Text(trascrizione_raw)) ) =>
        BlocksInOrder(full_prompt_for_gpt[1], main_prompt_instruction[1],
                      user_additional_instructions)

\* A prompt of six delimiter-free examples, instructions and a transcript.
C5_Witness ==
    /\ full_prompt_for_gpt # None
    /\ Len(esempi_texts[1]) = NUM_ESEMPI
    /\ \A i \in 1..Len(esempi_texts[1]) : ~HasDelimiter(esempi_texts[1][i])
    /\ Strip(user_additional_instructions) # <<>>
    /\ ~HasDelimiter(user_additional_instructions)
    /\ Truthy(trascrizione_raw)
    /\ ~HasDelimiter(trascrizione_raw[1])

\* C6 as stated: the error of the empty response is shown exactly when the
\* call returned a response without completions, and not when the call failed.
C6_EmptyResponseErrorOnlyForEmptyResponse ==
    ("error_no_valid_gpt_response" \in out) <=>
        (pc \in Terminal /\ gptCalls = 1 /\ NoCompletions(gpt_response_obj))

\* C6 amended: a response without completions is never shown as a result and
\* gives the error of line 251 and no other error; the same error is also
\* shown, after the error of the exception, when the call itself failed.
C6_NoValidResponseError ==
    /\ ("error_no_valid_gpt_response" \in out) <=>
          /\ pc \in Terminal
          /\ gptCalls = 1
          /\ (gpt_response_obj = None \/ NoCompletions(gpt_response_obj))
    /\ (NoCompletions(gpt_response_obj) /\ pc \in Terminal) =>
          /\ "analysis_result" \notin out
          /\ risultato_gpt = None
          /\ ChatErrorsShown = {}
    /\ (gpt_response_obj = None /\ gptCalls = 1 /\ pc \in Terminal) =>
          /\ Cardinality(ChatErrorsShown) = 1
          /\ "analysis_result" \notin out

\* A run that ended on a response with an empty list of completions.
C6_Witness ==
    /\ pc = "end"
    /\ gpt_response_obj # None
    /\ ~gpt_response_obj[1].choices_is_none
    /\ gpt_response_obj[1].choices = <<>>
    /\ "error_no_valid_gpt_response" \in out

\* C7 as stated: whichever shape the transcription service returns, a string
\* or an object with a text field, the text becomes the transcript and the
\* run does not end in a transcription failure.
C7_BothResponseShapesAccepted ==
    transcript_response_text # None =>
        /\ trascrizione_raw = Some(Strip(transcript_response_text[1].text))
        /\ ~TranscriptionErrorShown

\* C7 amended: a returned string becomes, stripped, the transcript and gives
\* no transcription failure; a returned object is a transcription failure:
\* the generic error is shown, the run stops and no analysis is made.
C7_OnlyStringResponseAccepted ==
    transcript_response_text # None =>
        IF transcript_response_text[1].shape = "str"
        THEN /\ trascrizione_raw = Some(Strip(transcript_response_text[1].text))
             /\ ~TranscriptionErrorShown
             /\ "error_transcript_unavailable" \notin out
        ELSE /\ trascrizione_raw = None
             /\ "error_transcription_generic" \in out
             /\ pc = "stopped"
             /\ gptCalls = 0

\* A returned string with content arrived at the branch after its display.
C7_Witness ==
    /\ transcript_response_text # None
    /\ transcript_response_text[1].shape = "str"
    /\ Truthy(trascrizione_raw)
    /\ pc = "branch"

\* C8: in analysis mode a transcript with content is on the page from the
\* moment the analysis branch is entered, so also in every run whose analysis
\* fails (template not loaded, vendor error, no valid response).
C8_TranscriptShownBeforeAnalysis ==
    ( /\ ~transcribe_only
      /\ Truthy(trascrizione_raw)
      /\ \/ pc \in AnalysisPositions
         \/ gptCalls > 0
         \/ PromptLoadFailed ) =>
        "transcript" \in out

\* A run whose analysis call failed, with the transcript on the page.
C8_Witness ==
    /\ pc = "end"
    /\ ~transcribe_only
    /\ ChatErrorsShown # {}
    /\ "error_no_valid_gpt_response" \in out
    /\ "transcript" \in out

\* C9: an empty transcript of a call that returned is no error and does not
\* stop the run: in analysis mode the run ends with the analysis called on a
\* prompt with an empty input (or stops for a template that did not load), in
\* transcription-only mode it ends without the analysis.
C9_EmptyTranscriptIsNotAnError ==
    /\ trascrizione_raw = Some(<<>>) =>
          /\ ~TranscriptionErrorShown
          /\ "error_transcript_unavailable" \notin out
          /\ pc = "stopped" => PromptLoadFailed
          /\ pc \in {"end", "crashed"} => gptCalls = (IF transcribe_only THEN 0 ELSE 1)
          /\ full_prompt_for_gpt # None => EndsWith(full_prompt_for_gpt[1], EmptyInputBlock)
    /\ (trascrizione_raw # None /\ pc = "stopped") => PromptLoadFailed

\* A whitespace-only transcript went to the analysis with an empty input.
C9_Witness ==
    /\ transcript_response_text # None
    /\ transcript_response_text[1].text = <<" ", "\n">>
    /\ trascrizione_raw = Some(<<>>)
    /\ ~transcribe_only
    /\ gptCalls = 1
    /\ EndsWith(full_prompt_for_gpt[1], EmptyInputBlock)

\* C10: a run without a key, from the secrets or from the field, stops before
\* the widgets are read: no transcription call, no template or example load,
\* no analysis call.
C10_NoKeyNoPipeline ==
    (~Truthy(openai_api_key) /\ pc \notin {"secrets", "key_check"}) =>
        /\ pc \in {"stopped", "crashed"}
        /\ uploaded_file = None
        /\ transcribeCalls = 0
        /\ main_prompt_instruction = None
        /\ esempi_texts = None
        /\ gptCalls = 0

\* A run stopped at the empty key field.
C10_Witness ==
    /\ pc = "stopped"
    /\ ~Truthy(openai_api_key)
    /\ "warning_enter_api_key" \in out

=============================================================================
